---- MODULE Spec2Model ----
(***************************************************************************)
(* Model of cosmos/ingestion/ingest/ingest.py: the Ingest class, its       *)
(* rasterisation task pdf_to_images and the orchestration in               *)
(* _ingest_local on top of a dask.distributed client.                      *)
(*                                                                         *)
(* The dask scheduler is modelled by its documented behaviour: a task      *)
(* starts when all futures it depends on have finished and a slot of the   *)
(* resource it was tagged with is free; a task whose dependency erred is   *)
(* erred with the same exception; Future.result() re-raises.               *)
(***************************************************************************)
EXTENDS Integers, Sequences, FiniteSets, TLC

\* ---------------------------------------------------------------- bounds
MaxDocs == 2          \* documents in pdf_directory
MaxPages == 2         \* pages of one document in the orchestration model
MaxItems == 2         \* pages of all the documents of a batch together
MaxDets == 2          \* detections on one page
MaxAggs == 2          \* length of the aggregations argument
MaxRasterPages == 10  \* pages of the document in the rasterisation model
NumProcess == 2       \* 'process' slots offered by the workers
NumGPU == 1           \* 'GPU' slots offered by the workers
MaxMetaPages == 2     \* pages the geometry metadata of a document covers
MaxCoord == 3         \* largest x1 of the first row of the geometry metadata
MaxNameLen == 2       \* characters of a document name in the scratch model
MaxScratchPages == 2  \* pages of a document in the scratch model
MaxWatermarkPages == 2  \* pages of the document given to _remove_watermark
MaxCommands == 3      \* commands of the content stream of one page

VARIABLES
    use_semantic_detection,   \* Ingest fields set by __init__
    use_xgboost_postprocess,
    use_rules_postprocess,
    tmp_dir,                  \* TRUE: a tmp_dir was given, FALSE: None
    pdfs,                     \* the documents get_pdf_names returns
    aggregations,             \* the aggregations argument of ingest(): the
                              \* elements the loop of line 120 has reached
    pc,                       \* position of the orchestrator
    rasterState,              \* state of each pdf_to_images future
    rasterResult,             \* value (or exception) of each such future
    images,                   \* the local variable `images` after line 79
    taskState,                \* state of each stage future, per item
    pkl,                      \* the pickled page object of each item
    results,                  \* result_df, as a sequence of rows
    aggIdx,                   \* position of the aggregation loop
    written,                  \* parquet files written under result_path
    tmpRemoved,               \* shutil.rmtree(self.tmp_dir) has run
    exc,                      \* exception that escaped ingest(), or "none"
    table,                    \* rows of <dataset_id>.parquet under result_path
    run,                      \* ordinal of the ingest() call on the instance
    geom,                     \* one page in pdf_to_images, lines 228-249
    scratch,                  \* images_tmp and the pdf_to_images tasks using it
    watermark,                \* one call of _remove_watermark, lines 158-189
    img_dir                   \* page images write_images_for_annotation
                              \* has copied to img_dir

vars == <<use_semantic_detection, use_xgboost_postprocess,
          use_rules_postprocess, tmp_dir, pdfs, aggregations, pc,
          rasterState, rasterResult, images, taskState, pkl,
          results, aggIdx, written, tmpRemoved, exc, table, run,
          geom, scratch, watermark, img_dir>>

\* ------------------------------------------------------------- documents
\* A document as the rasterizer sees it.
\*   kind  "good"        parse_pdf returns, every page file decodes
\*         "unparseable" parse_pdf raises
\*         "norender"    ghostscript fails and writes no page file
\*         "badname"     a file matching <pdf_name>_? ends in a non-digit
\*         "undecodable" PIL cannot decode the page files
\*   pages number of pages of the document (at least one)
DocKinds == {"good", "unparseable", "norender", "badname", "undecodable"}

Doc(k, p) == [kind |-> k, pages |-> p]

\* the filename None, which pdf_to_images accepts (line 193); no listing
\* of a directory holds it
NoFilename == Doc("None", 0)

DocSet ==
    {Doc("good", p) : p \in 1..MaxPages}
        \cup {Doc(k, 1) : k \in DocKinds \ {"good"}}

RECURSIVE TotalPages(_)
TotalPages(ds) ==
    IF ds = <<>> THEN 0 ELSE Head(ds).pages + TotalPages(Tail(ds))

Batches ==
    {b \in UNION {[1..n -> DocSet] : n \in 0..MaxDocs} :
        TotalPages(b) <= MaxItems}

AggregationNames == {"sections", "pdfs", "unknown"}
RegisteredAggregations == {"sections", "pdfs"}

\* ------------------------------------------------------- pdf_to_images
DigitChars == <<"0", "1", "2", "3", "4", "5", "6", "7", "8", "9">>

\* ghostscript's %d in -sOutputFile: the decimal digits of the page number
RECURSIVE Decimal(_)
Decimal(n) ==
    IF n < 10 THEN <<DigitChars[n + 1]>>
    ELSE Decimal(n \div 10) \o <<DigitChars[(n % 10) + 1]>>

\* suffixes (after "<pdf_name>_") of the files found in tmp_dir for a doc
GsOutput(doc) ==
    (IF doc.kind = "norender" THEN {}
     ELSE {Decimal(p) : p \in 1..doc.pages})
        \cup (IF doc.kind = "badname" THEN {<<"x">>} ELSE {})

\* glob.glob(f'{tmp_dir}/{pdf_name}_?'): exactly one character after "_"
Glob(files) == {f \in files : Len(f) = 1}

IsDigit(c) == \E d \in 1..10 : DigitChars[d] = c

\* int(image[-1])
IntOfLastChar(f) ==
    LET c == f[Len(f)] IN (CHOOSE d \in 1..10 : DigitChars[d] = c) - 1

RECURSIVE Ascending(_)
Ascending(S) ==
    IF S = {} THEN <<>>
    ELSE LET m == CHOOSE x \in S : \A y \in S : x <= y
         IN <<m>> \o Ascending(S \ {m})

\* glob lists the matching names in the order of the directory, which is
\* any order: the listings of n names are the permutations of 1..n
ListingOrders(n) == Permutations(1..n)

\* the elements of S in the order the listing gives them
Listed(S, order) ==
    LET names == Ascending(S) IN [j \in DOMAIN names |-> names[order[j]]]

\* the page numbers of the names (line 221), when pdf_to_images gets as far
\* as listing them and all of them end in a digit
PageNumbers(doc) == {IntOfLastChar(f) : f \in Glob(GsOutput(doc))}

\* Ingest.pdf_to_images: the values it can return or the exceptions it can
\* raise, one outcome per order of the listing
PdfToImages(doc) ==
    IF doc = NoFilename
    THEN {[status |-> "None", objs |-> <<>>]}
    ELSE IF doc.kind = "unparseable"
    THEN {[status |-> "returned", objs |-> <<>>]}
    ELSE IF \E f \in Glob(GsOutput(doc)) : ~IsDigit(f[Len(f)])
    THEN {[status |-> "Exception", objs |-> <<>>]}
    ELSE IF doc.kind = "undecodable" /\ Glob(GsOutput(doc)) # {}
    THEN {[status |-> "UnidentifiedImageError", objs |-> <<>>]}
    ELSE {[status |-> "returned", objs |-> Listed(PageNumbers(doc), order)] :
             order \in ListingOrders(Cardinality(PageNumbers(doc)))}

RasterExceptions == {"Exception", "UnidentifiedImageError"}

\* the state of the future of a task that ended with the outcome r
FutureOf(r) == IF r.status \in RasterExceptions THEN "erred" ELSE "finished"

\* ---------------------------------------------- floating-point numbers
\* The coordinates of the geometry metadata are Python floats (IEEE 754
\* binary64) and the scaling at lines 236-246 is done in that arithmetic.
\* A natural number of any size is a little-endian sequence of limbs in
\* 0..Radix-1, of the width the operation at hand needs.
RadixBits == 14
Radix == 2 ^ RadixBits

Limb(a, j) == IF j \in DOMAIN a THEN a[j] ELSE 0

\* binary digit k is digit Part(k) of limb Whole(k) + 1
Whole(k) == k \div RadixBits
Part(k) == k % RadixBits

\* binary digit i of a, digit 0 the lowest
Bit(a, i) == (Limb(a, Whole(i) + 1) \div (2 ^ Part(i))) % 2

\* number of binary digits of an integer below 2^30
SmallBitLen(n) == CHOOSE k \in 0..30 : n < 2 ^ k /\ (k = 0 \/ n >= 2 ^ (k - 1))

\* the highest limb of a # 0 that is not zero
TopLimb(a) ==
    CHOOSE j \in DOMAIN a : a[j] # 0 /\ \A h \in DOMAIN a : h > j => a[h] = 0

\* number of binary digits of a
BitLen(a) ==
    IF \A j \in DOMAIN a : a[j] = 0 THEN 0
    ELSE RadixBits * (TopLimb(a) - 1) + SmallBitLen(a[TopLimb(a)])

\* the n low limbs of a * 2^k
ShiftLeft(a, k, n) ==
    [j \in 1..n |->
        ((Limb(a, j - Whole(k)) * (2 ^ Part(k))) % Radix)
            + (Limb(a, j - 1 - Whole(k)) \div (2 ^ (RadixBits - Part(k))))]

\* the n low limbs of floor(a / 2^k)
ShiftRight(a, k, n) ==
    [j \in 1..n |->
        (Limb(a, j + Whole(k)) \div (2 ^ Part(k)))
            + ((Limb(a, j + 1 + Whole(k)) % (2 ^ Part(k)))
                   * (2 ^ (RadixBits - Part(k))))]

\* the binary digits of a below digit k are all zero
LowZero(a, k) ==
    \A j \in DOMAIN a :
        /\ j <= Whole(k) => a[j] = 0
        /\ j = Whole(k) + 1 => a[j] % (2 ^ Part(k)) = 0

\* adding c < Radix to a carries into limb j
CarryInto(a, c, j) ==
    a[1] + c >= Radix /\ \A h \in 2..(j - 1) : a[h] = Radix - 1

\* a + c for c < Radix, in the width of a
AddSmall(a, c) ==
    [j \in DOMAIN a |->
        IF j = 1 THEN (a[1] + c) % Radix
        ELSE IF CarryInto(a, c, j) THEN (a[j] + 1) % Radix ELSE a[j]]

\* binary64 has 53 significant binary digits, which take 4 limbs
MantissaBits == 53
MantissaLimbs == 4

\* A float is m * 2^e with m of exactly MantissaBits binary digits in
\* MantissaLimbs limbs, or zero. Exponent overflow and subnormal numbers
\* do not occur for page coordinates and are left out.
FloatZero == [m |-> <<>>, e |-> 0]

\* m * 2^e with m of MantissaBits digits, or 2^MantissaBits after a
\* rounding up
Normal(m, e) ==
    IF BitLen(m) > MantissaBits
    THEN [m |-> ShiftRight(m, 1, MantissaLimbs), e |-> e + 1]
    ELSE [m |-> m, e |-> e]

\* the float of an integer below Radix
FloatOfInt(n) ==
    IF n = 0 THEN FloatZero
    ELSE [m |-> ShiftLeft(<<n>>, MantissaBits - SmallBitLen(n),
                          MantissaLimbs),
          e |-> SmallBitLen(n) - MantissaBits]

\* the sum of the limb products of a and b that have the weight
\* Radix^(k-1), a of MantissaLimbs limbs
Column(a, b, k) ==
    Limb(a, 1) * Limb(b, k) + Limb(a, 2) * Limb(b, k - 1)
        + Limb(a, 3) * Limb(b, k - 2) + Limb(a, 4) * Limb(b, k - 3)

\* the limbs of the number whose columns from j on are cols, with the
\* carry c into column j
RECURSIVE Carried(_, _, _)
Carried(cols, j, c) ==
    IF j > Len(cols) THEN <<>>
    ELSE <<(cols[j] + c) % Radix>>
             \o Carried(cols, j + 1, (cols[j] + c) \div Radix)

\* a * b for mantissas a and b
BigMul(a, b) ==
    Carried([k \in 1..(2 * MantissaLimbs) |-> Column(a, b, k)], 1, 0)

\* round to nearest, ties to even: dropping the k >= 1 low digits of p
\* rounds up when they are more than half a unit of digit k, or half a
\* unit with digit k set
RoundsUp(p, k) ==
    Bit(p, k - 1) = 1 /\ (~LowZero(p, k - 1) \/ Bit(p, k) = 1)

\* the float nearest to p * 2^e, p with k digits more than a mantissa
RoundDrop(p, k, e) ==
    Normal(IF RoundsUp(p, k)
           THEN AddSmall(ShiftRight(p, k, MantissaLimbs), 1)
           ELSE ShiftRight(p, k, MantissaLimbs),
           e + k)

\* a * b in binary64
FloatMul(a, b) ==
    IF a.m = <<>> \/ b.m = <<>> THEN FloatZero
    ELSE RoundDrop(BigMul(a.m, b.m),
                   BitLen(BigMul(a.m, b.m)) - MantissaBits, a.e + b.e)

\* quotient and remainder of the limbs x[1..j] by d < Radix, with the
\* remainder r of the limbs above j
RECURSIVE ShortDiv(_, _, _, _)
PushLimb(y, t) == [q |-> y.q \o <<t>>, r |-> y.r]

ShortDiv(x, d, j, r) ==
    IF j = 0 THEN [q |-> <<>>, r |-> r]
    ELSE PushLimb(ShortDiv(x, d, j - 1, (r * Radix + x[j]) % d),
                  (r * Radix + x[j]) \div d)

\* the shift s for which floor(n * 2^s / d) has MantissaBits digits
QuotientShift(n, d) ==
    MantissaBits - (SmallBitLen(n) - SmallBitLen(d))
        - (IF n * (2 ^ SmallBitLen(d)) >= d * (2 ^ SmallBitLen(n))
           THEN 1 ELSE 0)

\* round to nearest, ties to even: the quotient x.q is rounded up when the
\* remainder is more than half the divisor, or half of it with x.q odd
RoundQuotient(x, d, e) ==
    Normal(IF 2 * x.r > d \/ (2 * x.r = d /\ x.q[1] % 2 = 1)
           THEN AddSmall(SubSeq(x.q, 1, MantissaLimbs), 1)
           ELSE SubSeq(x.q, 1, MantissaLimbs),
           e)

DivideAt(n, d, s) ==
    RoundQuotient(ShortDiv(ShiftLeft(<<n>>, s, MantissaLimbs + 1), d,
                           MantissaLimbs + 1, 0),
                  d, -s)

\* n / d in binary64 for integers n and d # 0 below Radix
TrueDiv(n, d) ==
    IF n = 0 THEN FloatZero ELSE DivideAt(n, d, QuotientShift(n, d))

\* ------------------------------------------------ the scratch directory
\* File names are sequences of characters. The names of the documents are
\* drawn over NameChars, which has characters glob treats specially.
NameChars == {"a", "?", "[", "]"}

DocNames == UNION {[1..n -> NameChars] : n \in 1..MaxNameLen}

\* f'{tmp_dir}/{pdf_name}_%d' as ghostscript expands it for page p
PagePath(name, p) == name \o <<"_">> \o Decimal(p)

PagePaths(doc) == {PagePath(doc.name, p) : p \in 1..doc.pages}

\* os.path.join(tmp_dir, pdf_name) + f'_{page_num}.pkl'
PklPath(name, page_num) ==
    name \o <<"_">> \o Decimal(page_num) \o <<".", "p", "k", "l">>

\* f'{tmp_dir}/{pdf_name}_?', the directory part left out
Pattern(name) == name \o <<"_", "?">>

\* fnmatch on a pattern that starts with "[": the index of the "]" that
\* closes the character class, 0 if there is none. A "]" right after the
\* "[" is a member of the class.
ClassEnd(pat) ==
    LET from == IF Len(pat) >= 2 /\ pat[2] = "]" THEN 3 ELSE 2
        closing == {j \in from..Len(pat) : pat[j] = "]"}
    IN IF closing = {} THEN 0
       ELSE CHOOSE j \in closing : \A l \in closing : j <= l

\* fnmatch.fnmatchcase(s, pat) for patterns without "*", "!" and "-":
\* "?" is any one character, "[...]" one character of the class, an
\* unclosed "[" and every other character stand for themselves
RECURSIVE Match(_, _)
Match(pat, s) ==
    IF pat = <<>> THEN s = <<>>
    ELSE IF s = <<>> THEN FALSE
    ELSE IF Head(pat) = "?" THEN Match(Tail(pat), Tail(s))
    ELSE IF Head(pat) = "[" /\ ClassEnd(pat) # 0
    THEN /\ \E j \in 2..(ClassEnd(pat) - 1) : pat[j] = Head(s)
         /\ Match(SubSeq(pat, ClassEnd(pat) + 1, Len(pat)), Tail(s))
    ELSE Head(pat) = Head(s) /\ Match(Tail(pat), Tail(s))

\* glob.glob(f'{tmp_dir}/{pdf_name}_?') on a directory holding `files`
GlobNames(name, files) == {f \in files : Match(Pattern(name), f)}

ScratchUnused == [tpc |-> <<>>]

ScratchTasks == DOMAIN scratch.tpc

\* --------------------------------------------- geometry of a page
\* limit[2], limit[3] as parse_pdf returns them: page boxes in points
PageExtents == {<<612, 792>>, <<595, 842>>}

\* img.size of the page file ghostscript wrote at 600 dpi
RasterSizes == {<<5100, 6600>>, <<4958, 7017>>}

\* img_size as resize_png returns it
RenderedSizes == {<<1484, 1920>>, <<1920, 1920>>}

\* a row of the DataFrame meta: an element box on the page with index p
MetaRow(p, c) ==
    [page |-> p,
     x1 |-> FloatOfInt(c), y1 |-> FloatOfInt(c + 1),
     x2 |-> FloatOfInt(c + 2), y2 |-> FloatOfInt(c + 3)]

\* the DataFrames parse_pdf returns: one row per page, pages from 0
Metas ==
    {[j \in 1..n |-> MetaRow(j - 1, c + j - 1)] :
        c \in 1..MaxCoord, n \in 1..MaxMetaPages}

GeomUnused == [pc |-> "none"]

\* lines 228, 234-235: the size the boxes of meta are relative to
OrigSizeOfRaster(img_size, limit) == img_size
OrigSize(img_size, limit) == <<limit[3], limit[4]>>

\* lines 236-237
Scale(rendered, orig) == TrueDiv(rendered, orig)

\* lines 243-246 on one row
ScaleRow(row, scale_w, scale_h) ==
    [row EXCEPT !.x1 = FloatMul(@, scale_w), !.x2 = FloatMul(@, scale_w),
                !.y1 = FloatMul(@, scale_h), !.y2 = FloatMul(@, scale_h)]

\* lines 234-246: meta2
ScaleMeta(meta, page_num, img_size, limit, size) ==
    LET orig == OrigSize(img_size, limit)
        scale_w == Scale(size[1], orig[1])
        scale_h == Scale(size[2], orig[2])
    IN [j \in DOMAIN meta |->
           IF meta[j].page = page_num - 1
           THEN ScaleRow(meta[j], scale_w, scale_h) ELSE meta[j]]

\* ------------------------------------------------------ content streams
\* the operators _remove_watermark tells apart (lines 166-173): BDC opens
\* marked content, EMC closes it, Tj stands for every other operator
Operators == {"BDC", "EMC", "Tj"}

\* the operators of the content stream of a page, in order
Streams == UNION {[1..n -> Operators] : n \in 0..MaxCommands}

\* pikepdf.parse_content_stream (line 165): the commands of the page as
\* pairs (operands, operator); the command at position j has the operands
\* <<j>>, so that no two commands of a stream are equal
ParseContentStream(ops) == [j \in DOMAIN ops |-> <<<<j>>, ops[j]>>]

\* str(operator) of a command
Operator(c) == c[2]

\* lines 166-174: one iteration of the loop over the commands, on the
\* locals BDC and commands
AfterCommandEMCKept(st, c) ==
    IF Operator(c) = "BDC" THEN [BDC |-> TRUE, commands |-> st.commands]
    ELSE IF st.BDC /\ Operator(c) # "EMC"
    THEN [BDC |-> TRUE, commands |-> st.commands]
    ELSE [BDC |-> FALSE, commands |-> Append(st.commands, c)]
AfterCommand(st, c) ==
    IF Operator(c) = "BDC" THEN [BDC |-> TRUE, commands |-> st.commands]
    ELSE IF st.BDC
    THEN [BDC |-> Operator(c) # "EMC", commands |-> st.commands]
    ELSE [BDC |-> FALSE, commands |-> Append(st.commands, c)]

WatermarkUnused == [pc |-> "none"]

\* ---------------------------------------------------------------- stages
\* the chain of client.map calls issued by _ingest_local for the flags
StageChainFlat(sem, xgb, rules) ==
    <<"propose_and_pad">>
        \o (IF sem THEN <<"detect", "regroup", "pool_text">> ELSE <<>>)
        \o (IF xgb THEN <<"xgboost_postprocess">> ELSE <<>>)
        \o (IF rules THEN <<"rules_postprocess">> ELSE <<>>)
StageChain(sem, xgb, rules) ==
    <<"propose_and_pad">>
        \o (IF sem
            THEN <<"detect", "regroup", "pool_text">>
                     \o (IF xgb
                         THEN <<"xgboost_postprocess">>
                                  \o (IF rules THEN <<"rules_postprocess">>
                                      ELSE <<>>)
                         ELSE <<>>)
            ELSE <<>>)

Chain ==
    StageChain(use_semantic_detection, use_xgboost_postprocess,
               use_rules_postprocess)

\* the resources= argument of each client.map
StageResourceUntagged(s) == "process"
StageResource(s) == IF s = "detect" THEN "GPU" ELSE "process"

Capacity(r) == IF r = "GPU" THEN NumGPU ELSE NumProcess

Items == DOMAIN images
Docs == DOMAIN pdfs

RunningRaster == {d \in Docs : rasterState[d] = "running"}

RunningTasks ==
    {t \in Items \X DOMAIN Chain : taskState[t[1]][t[2]] = "running"}

Used(r) ==
    Cardinality({t \in RunningTasks : StageResource(Chain[t[2]]) = r})
        + (IF r = "process" THEN Cardinality(RunningRaster) ELSE 0)

\* obj['content'] of a page with n detections:
\* (bounding box, [(score, class), ...], text) triples
ClsFor(k) ==
    IF k % 2 = 1 THEN << <<7, "Figure">>, <<2, "Table">> >>
    ELSE << <<9, "Body Text">> >>

DetectOutput(n) ==
    [k \in 1..n |-> [bb |-> <<k, k, k + 1, k + 1>>,
                     cls |-> ClsFor(k),
                     text |-> "text"]]

\* obj['xgboost_content']: one 4-tuple per detection
XgboostOutput(content) ==
    [k \in 1..Len(content) |->
        <<content[k].bb, "Equation", content[k].cls, k + 2>>]

\* the page object pdf_to_images pickles (line 253), by item
InitialPkl(item) ==
    [pdf_name |-> item.doc, dataset_id |-> "ds", page_num |-> item.page_num,
     keys |-> {}, content |-> <<>>, xgboost_content |-> <<>>]

\* the key a stage adds to the item's pickle when its task returns
StageKeys(s) ==
    IF s = "pool_text" THEN {"content"}
    ELSE IF s = "xgboost_postprocess" THEN {"xgboost_content"}
    ELSE {}

StageEffect(s, obj) == [obj EXCEPT !.keys = @ \cup StageKeys(s)]

\* pickle.load at line 97: the values stored under the keys of the pickle,
\* for a page on which the stages found n detections
LoadPkl(obj, n) ==
    [obj EXCEPT
        !.content = IF "content" \in obj.keys THEN DetectOutput(n) ELSE <<>>,
        !.xgboost_content =
            IF "xgboost_content" \in obj.keys
            THEN XgboostOutput(DetectOutput(n)) ELSE <<>>]

\* ---------------------------------------------------- result collection
\* scores, classes = zip(*cls)
ScoresOf(cls) == [j \in 1..Len(cls) |-> cls[j][1]]
ClassesOf(cls) == [j \in 1..Len(cls) |-> cls[j][2]]

\* the dict appended to results at lines 106-116
FinalObjFirstPostprocess(obj, ind) ==
    LET c == obj.content[ind]
        xgb == "xgboost_content" \in obj.keys
    IN [pdf_name |-> obj.pdf_name,
        dataset_id |-> obj.dataset_id,
        page_num |-> obj.page_num,
        bounding_box |-> c.bb,
        classes |-> ClassesOf(c.cls),
        scores |-> ScoresOf(c.cls),
        content |-> c.text,
        postprocess_cls |-> IF xgb THEN obj.xgboost_content[1][2]
                            ELSE "None",
        postprocess_score |-> IF xgb THEN obj.xgboost_content[1][4]
                              ELSE -1]
FinalObj(obj, ind) ==
    LET c == obj.content[ind]
        xgb == "xgboost_content" \in obj.keys
    IN [pdf_name |-> obj.pdf_name,
        dataset_id |-> obj.dataset_id,
        page_num |-> obj.page_num,
        bounding_box |-> c.bb,
        classes |-> ClassesOf(c.cls),
        scores |-> ScoresOf(c.cls),
        content |-> c.text,
        postprocess_cls |-> IF xgb THEN obj.xgboost_content[ind][2]
                            ELSE "None",
        postprocess_score |-> IF xgb THEN obj.xgboost_content[ind][4]
                              ELSE -1]

RowsOfItemFirstOnly(obj) ==
    [ind \in 1..(IF obj.content = <<>> THEN 0 ELSE 1) |-> FinalObj(obj, ind)]
RowsOfItem(obj) == [ind \in 1..Len(obj.content) |-> FinalObj(obj, ind)]

RECURSIVE RowsFrom(_, _)
RowsFrom(objs, i) ==
    IF i > Len(objs) THEN <<>>
    ELSE RowsOfItem(objs[i]) \o RowsFrom(objs, i + 1)

\* lines 118-119: the derived columns
DetectClsLast(x) == x[Len(x)]
DetectCls(x) == x[1]
DetectScore(x) == x[1]

WithDerived(row) ==
    [pdf_name |-> row.pdf_name, dataset_id |-> row.dataset_id,
     page_num |-> row.page_num, bounding_box |-> row.bounding_box,
     classes |-> row.classes, scores |-> row.scores,
     content |-> row.content, postprocess_cls |-> row.postprocess_cls,
     postprocess_score |-> row.postprocess_score,
     detect_cls |-> DetectCls(row.classes),
     detect_score |-> DetectScore(row.scores)]

\* lines 99-105 on the detection ind of an item: the exception raised, or
\* "none"; zip(*cls) of an empty list has nothing to unpack
DetectionError(obj, ind) ==
    IF Len(obj.content[ind].cls) = 0 THEN "ValueError"
    ELSE IF "xgboost_content" \in obj.keys /\ ind > Len(obj.xgboost_content)
    THEN "IndexError"
    ELSE "none"

\* the loop of lines 98-116 on one item stops at the first detection that
\* raises
ItemError(obj) ==
    IF "content" \notin obj.keys THEN "KeyError"
    ELSE IF \A ind \in DOMAIN obj.content : DetectionError(obj, ind) = "none"
    THEN "none"
    ELSE DetectionError(obj,
             CHOOSE ind \in DOMAIN obj.content :
                 /\ DetectionError(obj, ind) # "none"
                 /\ \A j \in 1..(ind - 1) : DetectionError(obj, j) = "none")

\* the exception lines 95-119 raise on the collected objects, or "none":
\* the loop over the items stops at the first item that raises, and line
\* 118 raises KeyError on a table without rows
CollectError(objs) ==
    IF \E i \in DOMAIN objs : ItemError(objs[i]) # "none"
    THEN ItemError(objs[CHOOSE i \in DOMAIN objs :
                            /\ ItemError(objs[i]) # "none"
                            /\ \A j \in 1..(i - 1) :
                                  ItemError(objs[j]) = "none"])
    ELSE IF RowsFrom(objs, 1) = <<>>
    THEN "KeyError"
    ELSE "none"

\* aggregate_router: raises for a name that is not registered
AggregateRouter(rows, name) ==
    IF name \in RegisteredAggregations THEN "view" ELSE "ConfigurationError"

\* ------------------------------------------------------------------ Init
\* an Ingest object after __init__, before ingest() is called
Init ==
    /\ use_semantic_detection \in BOOLEAN
    /\ use_xgboost_postprocess \in BOOLEAN
    /\ use_rules_postprocess \in BOOLEAN
    /\ tmp_dir \in BOOLEAN
    /\ pdfs = <<>>
    /\ aggregations = <<>>
    /\ pc = "start"
    /\ rasterState = <<>>
    /\ rasterResult = <<>>
    /\ images = <<>>
    /\ taskState = <<>>
    /\ pkl = <<>>
    /\ results = <<>>
    /\ aggIdx = 1
    /\ written = {}
    /\ tmpRemoved = FALSE
    /\ exc = "none"
    /\ table = <<>>
    /\ run = 1
    /\ geom = GeomUnused
    /\ scratch = ScratchUnused
    /\ watermark = WatermarkUnused
    /\ img_dir = {}

flags == <<use_semantic_detection, use_xgboost_postprocess,
           use_rules_postprocess, tmp_dir>>
config == <<flags, pdfs, aggregations>>
rasterVars == <<rasterState, rasterResult>>
outVars == <<results, aggIdx, written, tmpRemoved, table>>
\* variables the actions of one ingest() call leave alone
other == <<run, geom, scratch, watermark, img_dir>>

\* --------------------------------------------------------------- actions
\* ingest(pdf_directory, ..., aggregations): dispatch on tmp_dir (lines
\* 60-68); _ingest_local lists the directory and submits one
\* pdf_to_images task per pdf (lines 71-74). Nothing reads the aggregations
\* argument before the loop of line 120, which reveals it name by name.
IngestCallLocalAlways ==
    /\ pc = "start"
    /\ \E b \in Batches :
          /\ pdfs' = b
          /\ rasterState' = [d \in DOMAIN b |-> "waiting"]
          /\ rasterResult' =
                [d \in DOMAIN b |-> [status |-> "none", objs |-> <<>>]]
    /\ pc' = "progress_raster"
    /\ UNCHANGED <<flags, aggregations, other, images, taskState, pkl,
                   outVars, exc>>
IngestCall ==
    /\ pc = "start"
    /\ IF tmp_dir
       THEN \E b \in Batches :
               /\ pdfs' = b
               /\ aggregations' = aggregations
               /\ rasterState' = [d \in DOMAIN b |-> "waiting"]
               /\ rasterResult' =
                     [d \in DOMAIN b |-> [status |-> "none", objs |-> <<>>]]
               /\ pc' = "progress_raster"
               /\ exc' = exc
       ELSE /\ pc' = "raised"
            /\ exc' = "NotImplementedError"
            /\ UNCHANGED <<pdfs, aggregations, rasterVars>>
    /\ UNCHANGED <<flags, other, images, taskState, pkl, outVars>>

\* the scheduler starts a pdf_to_images task on a free 'process' slot
RasterStart(d) ==
    /\ rasterState[d] = "waiting"
    /\ Used("process") < Capacity("process")
    /\ rasterState' = [rasterState EXCEPT ![d] = "running"]
    /\ UNCHANGED <<config, other, pc, rasterResult, images, taskState,
                   pkl, outVars, exc>>

\* the document as ghostscript renders it into images_tmp: the directory is
\* made by __init__ only (line 53), and once line 125 has removed it
\* ghostscript cannot write any page file there
Rendered(doc) ==
    IF tmpRemoved /\ doc.kind \notin {"unparseable", "None"}
    THEN Doc("norender", doc.pages) ELSE doc

\* a pdf_to_images task returns or raises
RasterFinish(d) ==
    /\ rasterState[d] = "running"
    /\ \E r \in PdfToImages(Rendered(pdfs[d])) :
          /\ rasterResult' = [rasterResult EXCEPT ![d] = r]
          /\ rasterState' = [rasterState EXCEPT ![d] = FutureOf(r)]
    /\ UNCHANGED <<config, other, pc, images, taskState, pkl, outVars,
                   exc>>

Complete(st) == st \in {"finished", "erred"}

\* progress(images) at line 75 returns: every task is complete, or one of
\* them has erred, whatever the state of the others
RasterProgressReturns ==
    \/ \A d \in Docs : Complete(rasterState[d])
    \/ \E d \in Docs : rasterState[d] = "erred"

\* line 75
ProgressRaster ==
    /\ pc = "progress_raster"
    /\ RasterProgressReturns
    /\ pc' = "result_raster"
    /\ UNCHANGED <<config, other, rasterVars, images, taskState, pkl, outVars,
                   exc>>

\* lines 78-79 on the gathered values: a None is dropped, the lists of
\* the other tasks are concatenated
RECURSIVE Flatten(_, _)
Flatten(res, d) ==
    IF d > Len(res) THEN <<>>
    ELSE IF res[d].status = "None" THEN Flatten(res, d + 1)
    ELSE [j \in 1..Len(res[d].objs) |->
             [doc |-> d, page_num |-> res[d].objs[j]]]
         \o Flatten(res, d + 1)

\* line 77 has gone through the whole list: every result() has returned
RasterNotAwaited == TRUE
RasterAllDone == \A d \in Docs : rasterState[d] = "finished"

\* lines 77-79: result() is called on the futures in the order of the
\* list; each call waits for its future and re-raises its exception, so
\* the call on the first erred future raises once the futures before it
\* have finished, whatever the state of those after it
GatherRaster ==
    /\ pc = "result_raster"
    /\ \/ \E d \in Docs :
             /\ rasterState[d] = "erred"
             /\ \A y \in Docs : y < d => rasterState[y] = "finished"
             /\ pc' = "raised"
             /\ exc' = rasterResult[d].status
             /\ UNCHANGED <<images, taskState, pkl>>
       \/ /\ RasterAllDone
          /\ LET imgs == Flatten(rasterResult, 1) IN
             /\ images' = imgs
             /\ taskState' = [i \in DOMAIN imgs |->
                                 [k \in DOMAIN Chain |-> "none"]]
             /\ pkl' = [i \in DOMAIN imgs |-> InitialPkl(imgs[i])]
          /\ pc' = "map"
          /\ exc' = exc
    /\ UNCHANGED <<config, other, rasterVars, outVars>>

\* lines 81-91: the client.map calls are issued one after the other without
\* waiting; each creates a future per item that depends on the item's
\* future of the previous stage
SubmitChain ==
    /\ pc = "map"
    /\ taskState' = [i \in Items |-> [k \in DOMAIN Chain |-> "waiting"]]
    /\ pc' = "progress"
    /\ UNCHANGED <<config, other, rasterVars, images, pkl, outVars, exc>>

\* the futures a stage task depends on have finished
DepsIgnored(i, k) == TRUE
DepsDone(i, k) ==
    IF k = 1 THEN TRUE ELSE taskState[i][k - 1] = "finished"

\* the scheduler starts a stage task
TaskStart(i, k) ==
    /\ taskState[i][k] = "waiting"
    /\ DepsDone(i, k)
    /\ Used(StageResource(Chain[k])) < Capacity(StageResource(Chain[k]))
    /\ taskState' = [taskState EXCEPT ![i][k] = "running"]
    /\ UNCHANGED <<config, other, pc, rasterVars, images, pkl, outVars,
                   exc>>

\* a stage task returns
TaskFinish(i, k) ==
    /\ taskState[i][k] = "running"
    /\ taskState' = [taskState EXCEPT ![i][k] = "finished"]
    /\ pkl' = [pkl EXCEPT ![i] = StageEffect(Chain[k], @)]
    /\ UNCHANGED <<config, other, pc, rasterVars, images, outVars, exc>>

\* a stage task raises: its future and the submitted futures that depend
\* on it are erred
TaskRaise(i, k) ==
    /\ taskState[i][k] = "running"
    /\ taskState' =
          [taskState EXCEPT
              ![i] = [j \in DOMAIN Chain |->
                         IF j = k \/ (j > k /\ taskState[i][j] = "waiting")
                         THEN "erred" ELSE taskState[i][j]]]
    /\ UNCHANGED <<config, other, pc, rasterVars, images, pkl, outVars,
                   exc>>

\* progress(images) at line 92 returns: every future of the last stage is
\* complete, or a task of the chain has erred, whatever the state of the
\* others
ChainProgressReturns ==
    \/ \A i \in Items : Complete(taskState[i][Len(Chain)])
    \/ \E i \in Items : \E k \in DOMAIN Chain : taskState[i][k] = "erred"

\* line 92
ProgressChain ==
    /\ pc = "progress"
    /\ ChainProgressReturns
    /\ pc' = "result"
    /\ UNCHANGED <<config, other, rasterVars, images, taskState, pkl, outVars,
                   exc>>

\* line 93 has gone through the whole list: every result() has returned
ChainNotAwaited == TRUE
ChainAllDone == \A i \in Items : taskState[i][Len(Chain)] = "finished"

\* line 93: result() is called on the futures of the last stage in the
\* order of the items; the call on the first erred one raises once those
\* before it have finished, whatever the state of those after it
GatherChain ==
    /\ pc = "result"
    /\ \/ \E i \in Items :
             /\ taskState[i][Len(Chain)] = "erred"
             /\ \A y \in Items :
                   y < i => taskState[y][Len(Chain)] = "finished"
             /\ pc' = "raised"
             /\ exc' = "StageError"
       \/ /\ ChainAllDone
          /\ pc' = "collect"
          /\ exc' = exc
    /\ UNCHANGED <<config, other, rasterVars, images, taskState, pkl,
                   outVars>>

\* lines 94-119: load the pickles, explode them into rows, add the derived
\* columns
Collect ==
    /\ pc = "collect"
    /\ \E dets \in [Items -> 0..MaxDets] :
          LET objs == [i \in Items |-> LoadPkl(pkl[i], dets[i])]
              err == CollectError(objs)
          IN /\ pkl' = objs
             /\ IF err # "none"
                THEN /\ pc' = "raised"
                     /\ exc' = err
                     /\ results' = results
                ELSE /\ results' = [r \in DOMAIN RowsFrom(objs, 1) |->
                                       WithDerived(RowsFrom(objs, 1)[r])]
                     /\ pc' = "collected"
                     /\ exc' = exc
    /\ UNCHANGED <<config, other, rasterVars, images, taskState, aggIdx, written,
                   tmpRemoved, table>>

\* line 120: the loop starts to iterate over the aggregations argument
AggregationLoop ==
    /\ pc = "collected"
    /\ pc' = "aggregate"
    /\ UNCHANGED <<config, other, rasterVars, images, taskState, pkl,
                   outVars, exc>>

\* the names the iterator of line 120 can yield at position aggIdx: the
\* element the list is known to have there, or, past the elements seen
\* so far in the first call, any name; a second call on the same object
\* is given the list of the first
NextAggregations ==
    IF aggIdx <= Len(aggregations) THEN {aggregations[aggIdx]}
    ELSE IF run = 1 /\ Len(aggregations) < MaxAggs THEN AggregationNames
    ELSE {}

\* the list with `name` at position aggIdx
SeenUpTo(name) ==
    IF aggIdx <= Len(aggregations) THEN aggregations
    ELSE Append(aggregations, name)

\* one iteration of the loop at lines 120-123
AggregateUnderRowName ==
    /\ pc = "aggregate"
    /\ \E name \in NextAggregations :
          /\ aggregations' = SeenUpTo(name)
          /\ written' = written \cup {<<"ds">>}
          /\ aggIdx' = aggIdx + 1
    /\ UNCHANGED <<flags, pdfs, other, pc, rasterVars, images, taskState,
                   pkl, results, tmpRemoved, table, exc>>
Aggregate ==
    /\ pc = "aggregate"
    /\ \E name \in NextAggregations :
          /\ aggregations' = SeenUpTo(name)
          /\ IF AggregateRouter(results, name) = "view"
             THEN /\ written' = written \cup {<<"ds", name>>}
                  /\ aggIdx' = aggIdx + 1
                  /\ pc' = pc
                  /\ exc' = exc
             ELSE /\ pc' = "raised"
                  /\ exc' = AggregateRouter(results, name)
                  /\ UNCHANGED <<written, aggIdx>>
    /\ UNCHANGED <<flags, pdfs, other, rasterVars, images, taskState, pkl,
                   results, tmpRemoved, table>>

\* line 124, once the iterator of line 120 is exhausted
WriteRowsBeforeLoop ==
    /\ pc = "aggregate"
    /\ written' = written \cup {<<"ds">>}
    /\ table' = results
    /\ pc' = IF <<"ds">> \in written THEN "rmtree" ELSE pc
    /\ UNCHANGED <<config, other, rasterVars, images, taskState, pkl,
                   results, aggIdx, tmpRemoved, exc>>
WriteRows ==
    /\ pc = "aggregate"
    /\ aggIdx > Len(aggregations)
    /\ written' = written \cup {<<"ds">>}
    /\ table' = results
    /\ pc' = "rmtree"
    /\ UNCHANGED <<config, other, rasterVars, images, taskState, pkl,
                   results, aggIdx, tmpRemoved, exc>>

\* line 125
RemoveTmpBeforeWrites ==
    /\ pc = "aggregate"
    /\ ~tmpRemoved
    /\ tmpRemoved' = TRUE
    /\ UNCHANGED <<config, other, pc, rasterVars, images, taskState, pkl,
                   results, aggIdx, written, table, exc>>
RemoveTmp ==
    /\ pc = "rmtree"
    /\ tmpRemoved' = TRUE
    /\ pc' = "done"
    /\ UNCHANGED <<config, other, rasterVars, images, taskState, pkl,
                   results, aggIdx, written, table, exc>>

Next ==
    \/ IngestCall
    \/ \E d \in Docs : RasterStart(d)
    \/ \E d \in Docs : RasterFinish(d)
    \/ ProgressRaster
    \/ GatherRaster
    \/ SubmitChain
    \/ \E i \in Items, k \in DOMAIN Chain : TaskStart(i, k)
    \/ \E i \in Items, k \in DOMAIN Chain : TaskFinish(i, k)
    \/ \E i \in Items, k \in DOMAIN Chain : TaskRaise(i, k)
    \/ ProgressChain
    \/ GatherChain
    \/ Collect
    \/ AggregationLoop
    \/ Aggregate
    \/ WriteRows
    \/ RemoveTmp

Spec == Init /\ [][Next]_vars

\* ------------------------------------------- a second call of ingest()
\* ingest() is called again on the same Ingest object, with the same
\* arguments, after the first call returned (lines 59-74 again): the
\* locals of _ingest_local start afresh, the fields of the object and the
\* files on disk are what the first call left
Reingest ==
    /\ pc = "done"
    /\ run = 1
    /\ run' = 2
    /\ rasterState' = [d \in Docs |-> "waiting"]
    /\ rasterResult' = [d \in Docs |-> [status |-> "none", objs |-> <<>>]]
    /\ images' = <<>>
    /\ taskState' = <<>>
    /\ pkl' = <<>>
    /\ results' = <<>>
    /\ aggIdx' = 1
    /\ pc' = "progress_raster"
    /\ UNCHANGED <<config, written, tmpRemoved, table, exc, geom, scratch,
                   watermark, img_dir>>

\* ---------------------------------------- write_images_for_annotation
\* write_images_for_annotation(pdf_dir, img_dir) on the Ingest object,
\* before ingest(): line 133 reads self.images_tmp, which __init__ sets
\* only when a tmp_dir was given (line 51), then one pdf_to_images task
\* per pdf is submitted on a 'process' slot (line 134)
AnnotateCall ==
    /\ pc = "start"
    /\ IF tmp_dir
       THEN \E b \in Batches :
               /\ pdfs' = b
               /\ rasterState' = [d \in DOMAIN b |-> "waiting"]
               /\ rasterResult' =
                     [d \in DOMAIN b |-> [status |-> "none", objs |-> <<>>]]
               /\ pc' = "annotate_progress"
               /\ exc' = exc
       ELSE /\ pc' = "raised"
            /\ exc' = "AttributeError"
            /\ UNCHANGED <<pdfs, rasterVars>>
    /\ UNCHANGED <<flags, aggregations, other, images, taskState, pkl,
                   outVars>>

\* line 135: progress(images) returns
AnnotateProgress ==
    /\ pc = "annotate_progress"
    /\ RasterProgressReturns
    /\ pc' = "annotate_result"
    /\ UNCHANGED <<config, other, rasterVars, images, taskState, pkl,
                   outVars, exc>>

\* the page files lines 139-143 copy to img_dir, one per page object
CopiedPages(res) ==
    LET objs == Flatten(res, 1)
    IN {<<objs[i].doc, objs[i].page_num>> : i \in DOMAIN objs}

\* lines 136-145: result() future by future, the copies to img_dir, then
\* shutil.rmtree(self.tmp_dir), which raises when the directory is gone
AnnotateWrite ==
    /\ pc = "annotate_result"
    /\ \/ \E d \in Docs :
             /\ rasterState[d] = "erred"
             /\ \A y \in Docs : y < d => rasterState[y] = "finished"
             /\ pc' = "raised"
             /\ exc' = rasterResult[d].status
             /\ UNCHANGED <<img_dir, tmpRemoved>>
       \/ /\ RasterAllDone
          /\ img_dir' = img_dir \cup CopiedPages(rasterResult)
          /\ IF tmpRemoved
             THEN /\ pc' = "raised"
                  /\ exc' = "FileNotFoundError"
                  /\ tmpRemoved' = tmpRemoved
             ELSE /\ pc' = "start"
                  /\ exc' = exc
                  /\ tmpRemoved' = TRUE
    /\ UNCHANGED <<config, run, geom, scratch, watermark, rasterVars, images,
                   taskState, pkl, results, aggIdx, written, table>>

NextTwice ==
    \/ Next
    \/ Reingest
    \/ AnnotateCall
    \/ AnnotateProgress
    \/ AnnotateWrite

SpecTwice == Init /\ [][NextTwice]_vars

\* ------------------------------------------------- rasterisation on its own
\* pdf_to_images applied to one document of up to MaxRasterPages pages
RasterDocSet ==
    {Doc(k, p) : k \in DocKinds, p \in 1..MaxRasterPages} \cup {NoFilename}

InitRaster ==
    /\ use_semantic_detection = FALSE
    /\ use_xgboost_postprocess = FALSE
    /\ use_rules_postprocess = FALSE
    /\ tmp_dir = TRUE
    /\ table = <<>>
    /\ run = 1
    /\ geom = GeomUnused
    /\ scratch = ScratchUnused
    /\ watermark = WatermarkUnused
    /\ img_dir = {}
    /\ pdfs \in {<<d>> : d \in RasterDocSet}
    /\ aggregations = <<>>
    /\ pc = "pdf_to_images"
    /\ rasterState = <<"running">>
    /\ rasterResult = <<[status |-> "none", objs |-> <<>>]>>
    /\ images = <<>>
    /\ taskState = <<>>
    /\ pkl = <<>>
    /\ results = <<>>
    /\ aggIdx = 1
    /\ written = {}
    /\ tmpRemoved = FALSE
    /\ exc = "none"

\* one call of pdf_to_images, from its first line to its return or raise
PdfToImagesCall ==
    /\ pc = "pdf_to_images"
    /\ \E r \in PdfToImages(Rendered(pdfs[1])) :
          /\ rasterResult' = <<r>>
          /\ rasterState' = <<FutureOf(r)>>
    /\ pc' = "returned"
    /\ UNCHANGED <<config, other, images, taskState, pkl, outVars, exc>>

NextRaster == PdfToImagesCall

SpecRaster == InitRaster /\ [][NextRaster]_vars

\* ------------------------------------------ page geometry on its own
\* pdf_to_images inside its loop, after the page file of page page_num has
\* been read and decoded (line 227)
InitScale ==
    /\ use_semantic_detection = FALSE
    /\ use_xgboost_postprocess = FALSE
    /\ use_rules_postprocess = FALSE
    /\ tmp_dir = TRUE
    /\ pdfs = <<>>
    /\ aggregations = <<>>
    /\ pc = "pdf_to_images"
    /\ rasterState = <<>>
    /\ rasterResult = <<>>
    /\ images = <<>>
    /\ taskState = <<>>
    /\ pkl = <<>>
    /\ results = <<>>
    /\ aggIdx = 1
    /\ written = {}
    /\ tmpRemoved = FALSE
    /\ exc = "none"
    /\ table = <<>>
    /\ run = 1
    /\ scratch = ScratchUnused
    /\ watermark = WatermarkUnused
    /\ img_dir = {}
    /\ \E ext \in PageExtents, raster \in RasterSizes,
          p \in 1..MaxMetaPages :
          \/ \E m \in Metas :
                geom = [pc |-> "decoded", has_meta |-> TRUE, meta |-> m,
                        limit |-> <<0, 0, ext[1], ext[2]>>,
                        img_size |-> raster, page_num |-> p,
                        size |-> <<0, 0>>, meta2 |-> <<>>]
          \/ geom = [pc |-> "decoded", has_meta |-> FALSE, meta |-> <<>>,
                     limit |-> <<0, 0, ext[1], ext[2]>>,
                     img_size |-> raster, page_num |-> p,
                     size |-> <<0, 0>>, meta2 |-> <<>>]

\* lines 230-232
ResizePng ==
    /\ geom.pc = "decoded"
    /\ \E size \in RenderedSizes :
          geom' = [geom EXCEPT !.pc = "resized", !.size = size]
    /\ UNCHANGED <<config, run, scratch, watermark, img_dir, pc, rasterVars,
                   images, taskState, pkl, outVars, exc>>

\* lines 233-249
ScaleGeometry ==
    /\ geom.pc = "resized"
    /\ geom' = [geom EXCEPT
                   !.pc = "scaled",
                   !.meta2 = IF geom.has_meta
                             THEN ScaleMeta(geom.meta, geom.page_num,
                                            geom.img_size, geom.limit,
                                            geom.size)
                             ELSE <<>>]
    /\ UNCHANGED <<config, run, scratch, watermark, img_dir, pc, rasterVars,
                   images, taskState, pkl, outVars, exc>>

NextScale == ResizePng \/ ScaleGeometry

SpecScale == InitScale /\ [][NextScale]_vars

\* ------------------------------- rasterisation tasks sharing images_tmp
\* the pdf_to_images tasks of two documents of one directory, after
\* parse_pdf has returned for both
InitScratch ==
    /\ use_semantic_detection = FALSE
    /\ use_xgboost_postprocess = FALSE
    /\ use_rules_postprocess = FALSE
    /\ tmp_dir = TRUE
    /\ pdfs = <<>>
    /\ aggregations = <<>>
    /\ pc = "progress_raster"
    /\ rasterState = <<>>
    /\ rasterResult = <<>>
    /\ images = <<>>
    /\ taskState = <<>>
    /\ pkl = <<>>
    /\ results = <<>>
    /\ aggIdx = 1
    /\ written = {}
    /\ tmpRemoved = FALSE
    /\ exc = "none"
    /\ table = <<>>
    /\ run = 1
    /\ geom = GeomUnused
    /\ watermark = WatermarkUnused
    /\ img_dir = {}
    /\ \E n1 \in DocNames, n2 \in DocNames,
          p1 \in 1..MaxScratchPages, p2 \in 1..MaxScratchPages :
          /\ n1 # n2
          /\ scratch = [docs |-> <<[name |-> n1, pages |-> p1],
                                   [name |-> n2, pages |-> p2]>>,
                        tpc |-> <<"gs", "gs">>,
                        gs |-> <<0, 0>>,
                        partial |-> {},
                        files |-> {},
                        names |-> <<{}, {}>>,
                        cur |-> <<<<>>, <<>>>>,
                        read |-> {},
                        wrote |-> {}]

ScratchRest ==
    <<config, run, geom, watermark, img_dir, pc, rasterVars, images,
      taskState, pkl, outVars, exc>>

\* the page file the ghostscript process of task t is to write next
NextPage(t) == PagePath(scratch.docs[t].name, scratch.gs[t] + 1)

\* lines 208-216: the ghostscript process the task waits for writes the
\* page files of the document one after the other, scratch.gs[t] of them
\* so far. It creates the next one, which the directory lists from then
\* on while its content is still partial
RunGs(t) ==
    /\ scratch.tpc[t] = "gs"
    /\ NextPage(t) \notin scratch.partial
    /\ scratch' =
          [scratch EXCEPT
              !.partial = @ \cup {NextPage(t)},
              !.files = @ \cup {NextPage(t)},
              !.wrote = @ \cup {<<t, NextPage(t)>>}]
    /\ UNCHANGED ScratchRest

\* ghostscript has written the whole of the page file; subprocess.run
\* returns after the last one
GsPageWritten(t) ==
    /\ scratch.tpc[t] = "gs"
    /\ NextPage(t) \in scratch.partial
    /\ scratch' =
          [scratch EXCEPT
              !.gs[t] = @ + 1,
              !.partial = @ \ {NextPage(t)},
              !.tpc[t] = IF scratch.gs[t] + 1 = scratch.docs[t].pages
                         THEN "glob" ELSE "gs"]
    /\ UNCHANGED ScratchRest

\* line 218
ListNames(t) ==
    /\ scratch.tpc[t] = "glob"
    /\ scratch' =
          [scratch EXCEPT
              !.tpc[t] = "loop",
              !.names[t] = GlobNames(scratch.docs[t].name, scratch.files)]
    /\ UNCHANGED ScratchRest

\* lines 219-227, the start of one iteration: a name that does not end in
\* a digit raises at line 223; the bytes of the page file are read (lines
\* 224-225) and PIL decodes them (line 227), which raises on the bytes of
\* a file that is not written to the end at that moment, whether
\* ghostscript or the img.save of another task is writing it
ReadImage(t) ==
    /\ scratch.tpc[t] = "loop"
    /\ \E image \in scratch.names[t] :
          IF ~IsDigit(image[Len(image)])
          THEN scratch' = [scratch EXCEPT !.tpc[t] = "raised"]
          ELSE IF image \in scratch.partial
          THEN scratch' = [scratch EXCEPT
                              !.tpc[t] = "raised",
                              !.read = @ \cup {<<t, image>>}]
          ELSE scratch' = [scratch EXCEPT
                              !.tpc[t] = "save",
                              !.cur[t] = image,
                              !.read = @ \cup {<<t, image>>}]
    /\ UNCHANGED ScratchRest

\* line 252, img.save(image, format='PNG') opens the page file 'w+b',
\* which truncates it: from here to the end of the save its content is
\* partial
SaveOpen(t) ==
    /\ scratch.tpc[t] = "save"
    /\ scratch' = [scratch EXCEPT
                      !.tpc[t] = "saving",
                      !.partial = @ \cup {scratch.cur[t]},
                      !.wrote = @ \cup {<<t, scratch.cur[t]>>}]
    /\ UNCHANGED ScratchRest

\* another task is inside img.save of the file f
SavedByOther(t, f) ==
    \E u \in ScratchTasks \ {t} :
        scratch.tpc[u] = "saving" /\ scratch.cur[u] = f

\* the contents the file f can have once task t has closed it. The writes
\* of two tasks inside img.save of one file are not synchronised: when
\* the first of them closes it the file is whole or not, as their writes
\* fell. Both decoded the bytes ghostscript wrote and write the same
\* bytes, so the file is whole when the last of them has closed it
PartialAfterClose(t, f) ==
    IF SavedByOther(t, f)
    THEN {scratch.partial, scratch.partial \ {f}}
    ELSE {scratch.partial \ {f}}

\* line 252, img.save has written the resized page and closed the file
SaveClose(t) ==
    /\ scratch.tpc[t] = "saving"
    /\ \E rest \in PartialAfterClose(t, scratch.cur[t]) :
          scratch' = [scratch EXCEPT
                         !.tpc[t] = "pickle",
                         !.partial = rest]
    /\ UNCHANGED ScratchRest

\* lines 253-257, the end of the iteration: the page object is pickled
\* under the name of the task's own document
DumpPkl(t) ==
    /\ scratch.tpc[t] = "pickle"
    /\ LET obj == PklPath(scratch.docs[t].name,
                          IntOfLastChar(scratch.cur[t]))
       IN scratch' = [scratch EXCEPT
                         !.tpc[t] = "loop",
                         !.names[t] = @ \ {scratch.cur[t]},
                         !.cur[t] = <<>>,
                         !.files = @ \cup {obj},
                         !.wrote = @ \cup {<<t, obj>>}]
    /\ UNCHANGED ScratchRest

\* line 260
ReturnObjs(t) ==
    /\ scratch.tpc[t] = "loop"
    /\ scratch.names[t] = {}
    /\ scratch' = [scratch EXCEPT !.tpc[t] = "returned"]
    /\ UNCHANGED ScratchRest

NextScratch ==
    \/ \E t \in ScratchTasks : RunGs(t)
    \/ \E t \in ScratchTasks : GsPageWritten(t)
    \/ \E t \in ScratchTasks : ListNames(t)
    \/ \E t \in ScratchTasks : ReadImage(t)
    \/ \E t \in ScratchTasks : SaveOpen(t)
    \/ \E t \in ScratchTasks : SaveClose(t)
    \/ \E t \in ScratchTasks : DumpPkl(t)
    \/ \E t \in ScratchTasks : ReturnObjs(t)

SpecScratch == InitScratch /\ [][NextScratch]_vars

\* ------------------------------------------ watermark removal on its own
\* _remove_watermark(filename, target_directory) on one file of up to
\* MaxWatermarkPages pages, which pikepdf can open or not
InitWatermark ==
    /\ use_semantic_detection = FALSE
    /\ use_xgboost_postprocess = FALSE
    /\ use_rules_postprocess = FALSE
    /\ tmp_dir = TRUE
    /\ pdfs = <<>>
    /\ aggregations = <<>>
    /\ pc = "remove_watermark"
    /\ rasterState = <<>>
    /\ rasterResult = <<>>
    /\ images = <<>>
    /\ taskState = <<>>
    /\ pkl = <<>>
    /\ results = <<>>
    /\ aggIdx = 1
    /\ written = {}
    /\ tmpRemoved = FALSE
    /\ exc = "none"
    /\ table = <<>>
    /\ run = 1
    /\ geom = GeomUnused
    /\ scratch = ScratchUnused
    /\ img_dir = {}
    /\ \E n \in 0..MaxWatermarkPages, r \in BOOLEAN :
          watermark = [pc |-> "open", readable |-> r, pages |-> n,
                       ind |-> 0, stream |-> <<>>, pos |-> 1,
                       BDC |-> FALSE, commands |-> <<>>, new |-> <<>>,
                       saved |-> FALSE, ret |-> "none"]

WatermarkRest ==
    <<config, run, geom, scratch, img_dir, pc, rasterVars, images,
      taskState, pkl, outVars, exc>>

\* lines 160-161, and 182-189 when pikepdf cannot open the file: the
\* error is logged and None is returned
OpenPdf ==
    /\ watermark.pc = "open"
    /\ watermark' =
          IF watermark.readable
          THEN [watermark EXCEPT !.pc = "pages"]
          ELSE [watermark EXCEPT !.pc = "returned", !.ret = "None"]
    /\ UNCHANGED WatermarkRest

\* lines 162-165: the next page of target; its content stream is parsed
BeginPage ==
    /\ watermark.pc = "pages"
    /\ watermark.ind < watermark.pages
    /\ \E ops \in Streams :
          watermark' = [watermark EXCEPT
                           !.pc = "commands",
                           !.stream = ParseContentStream(ops),
                           !.pos = 1,
                           !.BDC = FALSE,
                           !.commands = <<>>]
    /\ UNCHANGED WatermarkRest

\* lines 165-174: one command of the page
Command ==
    /\ watermark.pc = "commands"
    /\ watermark.pos <= Len(watermark.stream)
    /\ LET st == AfterCommand([BDC |-> watermark.BDC,
                               commands |-> watermark.commands],
                              watermark.stream[watermark.pos])
       IN watermark' = [watermark EXCEPT
                           !.BDC = st.BDC,
                           !.commands = st.commands,
                           !.pos = @ + 1]
    /\ UNCHANGED WatermarkRest

\* lines 175-178: the commands kept become the content of page ind of new
EndPage ==
    /\ watermark.pc = "commands"
    /\ watermark.pos > Len(watermark.stream)
    /\ watermark' = [watermark EXCEPT
                        !.pc = "pages",
                        !.new = Append(@, watermark.commands),
                        !.ind = @ + 1]
    /\ UNCHANGED WatermarkRest

\* lines 179-181: new is saved under target_directory
SavePdf ==
    /\ watermark.pc = "pages"
    /\ watermark.ind = watermark.pages
    /\ watermark' = [watermark EXCEPT
                        !.pc = "returned", !.saved = TRUE,
                        !.ret = "filename"]
    /\ UNCHANGED WatermarkRest

NextWatermark == OpenPdf \/ BeginPage \/ Command \/ EndPage \/ SavePdf

SpecWatermark == InitWatermark /\ [][NextWatermark]_vars

\* ================================================================ claims
Submitted(st) == st # "none"

NoRasterSubmitted == \A d \in Docs : rasterState[d] = "none"
NoStageSubmitted ==
    \A i \in Items : \A k \in DOMAIN Chain : ~Submitted(taskState[i][k])

RasterGathered ==
    pc \notin {"start", "progress_raster", "result_raster", "pdf_to_images"}

\* C1: a document whose rasterisation fails (parsing, rasterizer output,
\* page-file naming, image decoding) contributes no items, and once the
\* rasterisation tasks are gathered no exception of theirs has escaped.
C1_RasterFailureAbsorbed ==
    \A d \in Docs :
        (pdfs[d].kind # "good" /\ RasterGathered)
            => /\ rasterResult[d].objs = <<>>
               /\ exc \notin RasterExceptions

\* C2: a stage task that raises for one item only removes that item; the
\* run never raises because of it.
C2_StageFailureAbsorbed == ~(pc = "raised" /\ exc = "StageError")

\* C3 (as claimed): no task of a later stage is submitted or started until
\* every task of the preceding stage has completed.
C3_StrictBarrier ==
    \A i \in Items : \A j \in Items : \A k \in DOMAIN Chain :
        (k > 1 /\ Submitted(taskState[i][k]))
            => Complete(taskState[j][k - 1])

\* C3 (amended): the barriers are before the chain and before collection:
\* no stage task is submitted until every rasterisation task has finished,
\* rows are collected only when every task of every stage has finished,
\* and inside the chain a task only waits for the same item's task of the
\* preceding stage.
C3_BarriersAroundChain ==
    /\ (\E i \in Items : \E k \in DOMAIN Chain : Submitted(taskState[i][k]))
          => \A d \in Docs : rasterState[d] = "finished"
    /\ pc \in {"collect", "collected", "aggregate", "rmtree", "done"}
          => \A i \in Items : \A k \in DOMAIN Chain :
                 taskState[i][k] = "finished"
    /\ \A i \in Items : \A k \in DOMAIN Chain :
          (k > 1 /\ taskState[i][k] \in {"running", "finished"})
              => taskState[i][k - 1] = "finished"

\* C3 witness: a task of a later stage runs while a task of the preceding
\* stage, for another item, has not completed.
C3_Witness ==
    \E i \in Items : \E j \in Items : \E k \in DOMAIN Chain :
        /\ k > 1
        /\ i # j
        /\ taskState[i][k] = "running"
        /\ taskState[j][k - 1] \in {"waiting", "running"}

\* C4 (as claimed): a 'process' task and a 'GPU' task never execute at the
\* same time.
C4_SingleResourceClass == ~(Used("process") > 0 /\ Used("GPU") > 0)

\* C4 (amended): tasks of both resource classes may execute at the same
\* time, but never for the same work item: at most one stage task of an
\* item is executing in any state.
C4_OneTaskPerItem ==
    \A i \in Items :
        Cardinality({k \in DOMAIN Chain : taskState[i][k] = "running"}) <= 1

\* C4 witness: a 'process' task and a 'GPU' task of different items execute
\* at the same time.
C4_Witness ==
    \E i \in Items : \E j \in Items :
        \E k \in DOMAIN Chain : \E l \in DOMAIN Chain :
            /\ i # j
            /\ taskState[i][k] = "running"
            /\ taskState[j][l] = "running"
            /\ StageResource(Chain[k]) = "GPU"
            /\ StageResource(Chain[l]) = "process"

DetectRunning ==
    {i \in Items : \E k \in DOMAIN Chain :
        Chain[k] = "detect" /\ taskState[i][k] = "running"}

\* C5: the number of detection tasks executing at the same time never
\* exceeds the number of 'GPU' slots.
C5_DetectWithinGPUSlots == Cardinality(DetectRunning) <= NumGPU

\* C5 witness: more page items than GPU slots, every slot busy with a
\* detection task, and another detection task ready but held back.
C5_Witness ==
    /\ Cardinality(Items) > NumGPU
    /\ Cardinality(DetectRunning) = NumGPU
    /\ \E i \in Items : \E k \in DOMAIN Chain :
          /\ Chain[k] = "detect"
          /\ taskState[i][k] = "waiting"
          /\ DepsDone(i, k)

InvalidFlags ==
    \/ use_rules_postprocess /\ ~use_xgboost_postprocess
    \/ use_xgboost_postprocess /\ ~use_semantic_detection

\* C6: with an invalid flag combination the run raises a ConfigurationError
\* before any task is submitted.
C6_InvalidFlagsRejected ==
    (InvalidFlags /\ tmp_dir)
        => /\ NoRasterSubmitted
           /\ NoStageSubmitted
           /\ pc \in {"start", "raised"}
           /\ pc = "raised" => exc = "ConfigurationError"

\* C7: an unregistered aggregation name makes the run fail before any
\* rasterisation or stage task has been submitted.
C7_UnknownAggregationFailsAtStartup ==
    exc = "ConfigurationError" => NoRasterSubmitted /\ NoStageSubmitted

CollectExceptions == {"KeyError", "ValueError", "IndexError"}

\* C8: when no surviving item has a detection the run does not raise in
\* result collection (and goes on to write an empty table).
C8_ZeroDetectionsNotAnError ==
    (\A i \in Items : Len(pkl[i].content) = 0)
        => exc \notin CollectExceptions

\* C9: every row has as many classes as scores, and detect_cls and
\* detect_score are the first class and the first score.
C9_RowInvariant ==
    \A r \in DOMAIN results :
        /\ Len(results[r].classes) = Len(results[r].scores)
        /\ results[r].detect_cls = results[r].classes[1]
        /\ results[r].detect_score = results[r].scores[1]

\* C9 witness: a collected row with two classes and scores that differ.
C9_Witness ==
    \E r \in DOMAIN results :
        /\ Len(results[r].classes) = 2
        /\ results[r].classes[1] # results[r].classes[2]
        /\ results[r].scores[1] # results[r].scores[2]

PageNums(objs) == {objs[j] : j \in DOMAIN objs}

\* C10: rasterising a document of N pages yields exactly N items with the
\* page numbers 1..N.
C10_OneItemPerPage ==
    (pc = "returned" /\ pdfs[1].kind = "good")
        => /\ Len(rasterResult[1].objs) = pdfs[1].pages
           /\ PageNums(rasterResult[1].objs) = 1..pdfs[1].pages

\* the number of times row x occurs in the table t
Occurrences(t, x) == Cardinality({r \in DOMAIN t : t[r] = x})

\* two tables have the same rows, whatever their order
SameRows(t, u) ==
    /\ Len(t) = Len(u)
    /\ \A r \in DOMAIN t : Occurrences(t, t[r]) = Occurrences(u, t[r])

\* C11: a second ingest() call on the same Ingest object, with the same
\* arguments, after the first call completed, does not raise, and the row
\* table it collects has the rows of the table the first call wrote.
C11_SecondRunSameTable ==
    run = 2 =>
        /\ pc # "raised"
        /\ pc \in {"collected", "aggregate", "rmtree", "done"}
              => SameRows(results, table)

AggregationsRequested == {aggregations[j] : j \in DOMAIN aggregations}

StageTaskPending ==
    \E i \in Items : \E k \in DOMAIN Chain :
        taskState[i][k] \in {"waiting", "running"}

\* C12: the scratch directory is removed when the run has succeeded, and
\* then the row table and the table of every requested aggregation have
\* been written; once it is removed no stage task is pending or running
\* and the collector does not read a pickle any more.
C12_RemovedAfterWrites ==
    /\ pc = "done" => tmpRemoved
    /\ tmpRemoved =>
          /\ <<"ds">> \in written
          /\ table = results
          /\ \A a \in AggregationsRequested : <<"ds", a>> \in written
          /\ ~StageTaskPending
          /\ pc \notin {"map", "progress", "collect", "collected", "aggregate",
                       "rmtree"}

\* C12 witness: a run with items and a requested aggregation has ended and
\* the scratch directory is gone.
C12_Witness ==
    /\ tmpRemoved
    /\ Items # {}
    /\ AggregationsRequested # {}
    /\ results # <<>>

\* the rows of meta that belong to the page being rasterised
OnPage(j) == geom.meta[j].page = geom.page_num - 1

\* rendered_width / W and rendered_height / H, W and H from the page box
FactorW == Scale(geom.size[1], geom.limit[3])
FactorH == Scale(geom.size[2], geom.limit[4])
InverseW == Scale(geom.limit[3], geom.size[1])
InverseH == Scale(geom.limit[4], geom.size[2])

ScaledByPageBox(j) ==
    /\ geom.meta2[j].x1 = FloatMul(geom.meta[j].x1, FactorW)
    /\ geom.meta2[j].x2 = FloatMul(geom.meta[j].x2, FactorW)
    /\ geom.meta2[j].y1 = FloatMul(geom.meta[j].y1, FactorH)
    /\ geom.meta2[j].y2 = FloatMul(geom.meta[j].y2, FactorH)

\* the natural x is within y / 2^50 of the natural y
Within(x, y) ==
    \E k \in 0..ShiftRight(y, 50, 1)[1] :
        AddSmall(x, k) = y \/ AddSmall(y, k) = x

Lower(a, b) == IF a.e < b.e THEN a.e ELSE b.e

\* the float a is within a relative error of 2^-50 of the float b: their
\* exponents differ by one at most, and so do their mantissas by
\* 2^-50 of b's when brought to the lower exponent
Close(a, b) ==
    /\ a.e - b.e \in {-1, 0, 1}
    /\ Within(ShiftLeft(a.m, a.e - Lower(a, b), MantissaLimbs + 1),
              ShiftLeft(b.m, b.e - Lower(a, b), MantissaLimbs + 1))

\* C13 (as claimed): the rows of the page are scaled by rendered size over
\* page-box extent, and multiplying the scaled coordinates by the inverse
\* factors gives back the original coordinates.
C13_ExactInverse ==
    (geom.pc = "scaled" /\ geom.has_meta) =>
        \A j \in DOMAIN geom.meta :
            OnPage(j) =>
                /\ ScaledByPageBox(j)
                /\ FloatMul(geom.meta2[j].x1, InverseW) = geom.meta[j].x1
                /\ FloatMul(geom.meta2[j].x2, InverseW) = geom.meta[j].x2
                /\ FloatMul(geom.meta2[j].y1, InverseH) = geom.meta[j].y1
                /\ FloatMul(geom.meta2[j].y2, InverseH) = geom.meta[j].y2

\* C13 (amended): the rows of the page are scaled by rendered size over
\* page-box extent, and multiplying the scaled coordinates by the inverse
\* factors gives back the original coordinates up to the rounding of the
\* float operations, a relative error of at most 2^-50.
C13_InverseUpToRounding ==
    (geom.pc = "scaled" /\ geom.has_meta) =>
        \A j \in DOMAIN geom.meta :
            OnPage(j) =>
                /\ ScaledByPageBox(j)
                /\ Close(FloatMul(geom.meta2[j].x1, InverseW), geom.meta[j].x1)
                /\ Close(FloatMul(geom.meta2[j].x2, InverseW), geom.meta[j].x2)
                /\ Close(FloatMul(geom.meta2[j].y1, InverseH), geom.meta[j].y1)
                /\ Close(FloatMul(geom.meta2[j].y2, InverseH), geom.meta[j].y2)

\* C13 witness: a page with a row of its own has been scaled, the raster
\* size differs from the page box, and scaling a coordinate back does not
\* give the float it started from.
C13_Witness ==
    /\ geom.pc = "scaled"
    /\ geom.has_meta
    /\ geom.img_size # <<geom.limit[3], geom.limit[4]>>
    /\ \E j \in DOMAIN geom.meta :
          /\ OnPage(j)
          /\ geom.meta2[j].x1 # geom.meta[j].x1
          /\ FloatMul(geom.meta2[j].x1, InverseW) # geom.meta[j].x1

\* C14: when a run has succeeded the parquet files written under
\* result_path are the row table <dataset_id>.parquet and one table
\* <dataset_id>_<a>.parquet for every requested aggregation a, and nothing
\* else; without aggregations the row table is the only file.
C14_ExactlyTheRequestedTables ==
    pc = "done" =>
        /\ written = {<<"ds">>} \cup {<<"ds", a>> : a \in AggregationsRequested}
        /\ aggregations = <<>> => written = {<<"ds">>}

\* C14 witness: a run with two different aggregations has succeeded and has
\* written three tables.
C14_Witness ==
    /\ pc = "done"
    /\ Cardinality(AggregationsRequested) = 2
    /\ Cardinality(written) = 3

StageNames ==
    {"propose_and_pad", "detect", "regroup", "pool_text",
     "xgboost_postprocess", "rules_postprocess"}

\* the stages the flags call for
StagesForFlags ==
    {s \in StageNames :
        \/ s = "propose_and_pad"
        \/ /\ s \in {"detect", "regroup", "pool_text"}
           /\ use_semantic_detection
        \/ /\ s = "xgboost_postprocess"
           /\ use_semantic_detection /\ use_xgboost_postprocess
        \/ /\ s = "rules_postprocess"
           /\ use_semantic_detection /\ use_xgboost_postprocess
           /\ use_rules_postprocess}

\* the stages of which a task was submitted, or has returned, for item i
StagesSubmitted(i) ==
    {Chain[k] : k \in {j \in DOMAIN taskState[i] :
                          Submitted(taskState[i][j])}}
StagesReturned(i) ==
    {Chain[k] : k \in {j \in DOMAIN taskState[i] :
                          taskState[i][j] = "finished"}}

\* C15: the stages applied are proposal always, detection, regroup and
\* text pooling iff use_semantic_detection, the classifier postprocess iff
\* also use_xgboost_postprocess, the rule postprocess iff all three flags
\* are set: no task of another stage is ever submitted, and when the rows
\* are collected every item has been through exactly these stages.
C15_StagesByFlags ==
    \A i \in Items :
        /\ StagesSubmitted(i) \subseteq StagesForFlags
        /\ pc \in {"progress", "collect"} => StagesSubmitted(i) = StagesForFlags
        /\ pc = "collect" =>
              /\ StagesReturned(i) = StagesForFlags
              /\ "content" \in pkl[i].keys <=> use_semantic_detection
              /\ "xgboost_content" \in pkl[i].keys
                     <=> (use_semantic_detection /\ use_xgboost_postprocess)

\* C15 witness: the rule postprocess was asked for without the classifier
\* postprocess, and an item has been through the stages up to text pooling.
C15_Witness ==
    /\ pc = "collect"
    /\ Items # {}
    /\ use_semantic_detection
    /\ ~use_xgboost_postprocess
    /\ use_rules_postprocess
    /\ \A i \in Items :
          StagesReturned(i) =
              {"propose_and_pad", "detect", "regroup", "pool_text"}

\* the scheduler starts the task of stage k for item i in this step
Starts(i, k) ==
    /\ i \in DOMAIN taskState'
    /\ taskState[i][k] # "running"
    /\ taskState'[i][k] = "running"

\* the collector starts to read the pickles in this step
CollectionStarts == pc = "collect" /\ pc' # "collect"

\* C16: the stages of one item run in the order of the chain: whenever a
\* stage task of an item starts, the tasks of all the earlier stages of
\* the chain have returned for that item, and whenever result collection
\* starts, the task of the last stage has returned for every item.
C16_ItemStageOrder ==
    [][/\ \A i \in Items : \A k \in DOMAIN Chain :
             Starts(i, k) => \A j \in 1..(k - 1) : taskState[i][j] = "finished"
       /\ CollectionStarts
             => \A i \in Items : taskState[i][Len(Chain)] = "finished"]_vars

\* C16 witness: with all six stages enabled, the rule postprocess of an
\* item is running after its five earlier stages have returned, while
\* another item has not been through detection yet.
C16_Witness ==
    /\ Len(Chain) = 6
    /\ \E i \in Items : \E j \in Items :
          /\ taskState[i][6] = "running"
          /\ \A k \in 1..5 : taskState[i][k] = "finished"
          /\ taskState[j][2] = "waiting"

Collected == pc \in {"collected", "aggregate", "rmtree", "done"}

\* the number of detections of the items 1..i
RECURSIVE DetectionsUpTo(_)
DetectionsUpTo(i) ==
    IF i = 0 THEN 0 ELSE Len(pkl[i].content) + DetectionsUpTo(i - 1)

\* the row collected for the detection at index ind of item i
RowOf(i, ind) == results[DetectionsUpTo(i - 1) + ind]

\* C17: the collected table has one row per detection of every item, and
\* the row of a detection carries the document name, dataset id and page
\* number of its item and the box, classes, scores and text of that
\* detection.
C17_OneRowPerDetection ==
    Collected =>
        /\ Len(results) = DetectionsUpTo(Len(images))
        /\ \A i \in Items : \A ind \in DOMAIN pkl[i].content :
              LET c == pkl[i].content[ind] IN
              /\ RowOf(i, ind).pdf_name = images[i].doc
              /\ RowOf(i, ind).dataset_id = "ds"
              /\ RowOf(i, ind).page_num = images[i].page_num
              /\ RowOf(i, ind).bounding_box = c.bb
              /\ RowOf(i, ind).classes = [j \in DOMAIN c.cls |-> c.cls[j][2]]
              /\ RowOf(i, ind).scores = [j \in DOMAIN c.cls |-> c.cls[j][1]]
              /\ RowOf(i, ind).content = c.text

\* C17 witness: two pages of different documents with one and two
\* detections have been collected into three rows.
C17_Witness ==
    /\ Collected
    /\ Len(images) = 2
    /\ images[1].doc # images[2].doc
    /\ Len(pkl[1].content) = 1
    /\ Len(pkl[2].content) = 2
    /\ Len(results) = 3

\* None in the postprocess columns of a row
NullCls == "None"
NullScore == -1

\* C18: in every row postprocess_cls and postprocess_score are both None
\* or both set; they are set exactly when the classifier postprocess ran on
\* the row's item, and then they are the class and the score of the entry
\* of xgboost_content at the index of the row's detection.
C18_PostprocessColumns ==
    Collected =>
        \A i \in Items : \A ind \in DOMAIN pkl[i].content :
            LET r == RowOf(i, ind)
                ran == "xgboost_postprocess" \in StagesReturned(i)
            IN /\ r.postprocess_cls = NullCls <=> r.postprocess_score = NullScore
               /\ r.postprocess_cls # NullCls <=> ran
               /\ ran => /\ r.postprocess_cls = pkl[i].xgboost_content[ind][2]
                         /\ r.postprocess_score = pkl[i].xgboost_content[ind][4]

\* C18 witness: the classifier postprocess ran on a page with two
\* detections, and the two rows carry different postprocess scores.
C18_Witness ==
    /\ Collected
    /\ \E i \in Items :
          /\ "xgboost_postprocess" \in StagesReturned(i)
          /\ Len(pkl[i].content) = 2
          /\ RowOf(i, 1).postprocess_score # RowOf(i, 2).postprocess_score
          /\ RowOf(i, 2).postprocess_score # NullScore

\* the tasks that have written the file f of the scratch directory
WritersOf(f) == {t \in ScratchTasks : <<t, f>> \in scratch.wrote}

\* task t has read or written a page file ghostscript produced for
\* another document
PicksUpForeignPage(t) ==
    \E d \in ScratchTasks \ {t} : \E f \in PagePaths(scratch.docs[d]) :
        <<t, f>> \in scratch.read \cup scratch.wrote

\* C19: whatever the interleaving of the rasterisation tasks of two
\* documents of a batch, no file of the scratch directory is written by
\* both tasks, and neither task reads or rewrites a page file produced for
\* the other document.
C19_ScratchKeyedByDocument ==
    \A t \in ScratchTasks :
        /\ \A f \in scratch.files : Cardinality(WritersOf(f)) <= 1
        /\ ~PicksUpForeignPage(t)

\* what C20 supposes of a run: a scratch directory, documents that all
\* rasterise, page items, no task that raised, semantic detection so that
\* the pickles have their 'content', and registered aggregations only
TasksAllSucceed ==
    /\ \A d \in Docs : pdfs[d].kind = "good" /\ rasterState[d] # "erred"
    /\ \A i \in Items : \A k \in DOMAIN Chain : taskState[i][k] # "erred"

C20_Premise ==
    /\ tmp_dir
    /\ use_semantic_detection
    /\ Items # {}
    /\ TasksAllSucceed
    /\ AggregationsRequested \subseteq RegisteredAggregations

\* C20: a run in which every task finishes ends with the row table
\* written: it never ends by raising, and whenever the orchestrator waits
\* in progress() some awaited task is running or can be started.
C20_EndsWithRowTable ==
    C20_Premise =>
        /\ pc # "raised"
        /\ pc = "done" => <<"ds">> \in written
        /\ (pc \in {"progress", "result"} /\ ~ChainAllDone)
              => \E i \in Items : \E k \in DOMAIN Chain :
                     \/ taskState[i][k] = "running"
                     \/ ENABLED TaskStart(i, k)

\* the aggregation loop has raised: aggregate_router refused the name at
\* position aggIdx of the aggregations argument
AggregationRaised == pc = "raised" /\ exc = "ConfigurationError"

\* C21: when an aggregation raises, the row table <dataset_id>.parquet is
\* not written and the scratch directory is not removed, while the tables
\* of the aggregations earlier in the list are written and stay written.
C21_PartialOutputOnAggregationError ==
    AggregationRaised =>
        /\ <<"ds">> \notin written
        /\ table = <<>>
        /\ ~tmpRemoved
        /\ written = {<<"ds", aggregations[j]>> : j \in 1..(aggIdx - 1)}

\* C21 witness: the second aggregation of the list has raised after the
\* first one wrote its table.
C21_Witness ==
    /\ AggregationRaised
    /\ aggIdx = 2
    /\ written = {<<"ds", aggregations[1]>>}
    /\ results # <<>>

\* ingest() has been called
Called == pc # "start"

\* C22: ingest() on an object constructed without a tmp_dir raises
\* NotImplementedError, and no task has been submitted to the client and
\* nothing has been written under result_path.
C22_NoTmpDirNotImplemented ==
    (~tmp_dir /\ Called) =>
        /\ pc = "raised"
        /\ exc = "NotImplementedError"
        /\ pdfs = <<>>
        /\ rasterState = <<>>
        /\ taskState = <<>>
        /\ written = {}
        /\ table = <<>>

\* C22 witness: the call on an object without a tmp_dir has raised.
C22_Witness ==
    /\ ~tmp_dir
    /\ Called
    /\ exc = "NotImplementedError"

\* the page whose content stream is watermark.stream has been written to
\* new, as its last page
PageDone == watermark.pc \in {"pages", "returned"} /\ watermark.ind > 0

\* the commands of s at the positions of P, in the order of s
CommandsAt(s, P) == [k \in 1..Cardinality(P) |-> s[Ascending(P)[k]]]

\* the command at j lies between a BDC and the next EMC after that BDC,
\* the EMC included
InClosedSection(s, j) ==
    \E b \in 1..(j - 1) : \E e \in j..Len(s) :
        /\ Operator(s[b]) = "BDC"
        /\ Operator(s[e]) = "EMC"
        /\ \A x \in (b + 1)..(e - 1) : Operator(s[x]) # "EMC"

\* the command at j comes after a BDC with no EMC in between
InOpenSection(s, j) ==
    \E b \in 1..(j - 1) :
        /\ Operator(s[b]) = "BDC"
        /\ \A x \in (b + 1)..(j - 1) : Operator(s[x]) # "EMC"

HasBDC(s) == \E j \in DOMAIN s : Operator(s[j]) = "BDC"

\* C23 (as claimed): the content of an output page is exactly the commands
\* of the input page that are neither a BDC nor between a BDC and the next
\* following EMC (inclusive), in their order; no output page has a BDC;
\* the saved document has as many pages as the input.
C23_OutsideClosedSections ==
    /\ PageDone =>
          watermark.new[watermark.ind] =
              CommandsAt(watermark.stream,
                         {j \in DOMAIN watermark.stream :
                             /\ Operator(watermark.stream[j]) # "BDC"
                             /\ ~InClosedSection(watermark.stream, j)})
    /\ watermark.pc # "none" =>
          \A k \in DOMAIN watermark.new : ~HasBDC(watermark.new[k])
    /\ (watermark.pc = "returned" /\ watermark.saved) =>
          Len(watermark.new) = watermark.pages

\* C23 (amended): the content of an output page is exactly the commands of
\* the input page that are neither a BDC nor after a BDC with no EMC in
\* between, in their order: a section runs from a BDC to the next EMC
\* (inclusive) or, when no EMC follows, to the end of the page; no output
\* page has a BDC; the saved document has as many pages as the input.
C23_OutsideSections ==
    /\ PageDone =>
          watermark.new[watermark.ind] =
              CommandsAt(watermark.stream,
                         {j \in DOMAIN watermark.stream :
                             /\ Operator(watermark.stream[j]) # "BDC"
                             /\ ~InOpenSection(watermark.stream, j)})
    /\ watermark.pc # "none" =>
          \A k \in DOMAIN watermark.new : ~HasBDC(watermark.new[k])
    /\ (watermark.pc = "returned" /\ watermark.saved) =>
          Len(watermark.new) = watermark.pages

\* C23 witness: a document of two pages has been saved; its last page had
\* a command before a BDC and one after it with no EMC to follow, and only
\* the first of the two is in the output page.
C23_Witness ==
    /\ watermark.pc = "returned"
    /\ watermark.saved
    /\ watermark.pages = 2
    /\ Len(watermark.stream) = 3
    /\ Operator(watermark.stream[1]) = "Tj"
    /\ Operator(watermark.stream[2]) = "BDC"
    /\ Operator(watermark.stream[3]) = "Tj"
    /\ watermark.new[2] = <<watermark.stream[1]>>

====
